---- MODULE Spec2Model ----
(***************************************************************************)
(* Push notification server of status-go                                  *)
(* (protocol/push_notification_server/push_notification_server.go):       *)
(* registration validation with anti-replay versioning, query handling,   *)
(* notification request handling and the "2"-suffixed transport wrappers. *)
(***************************************************************************)
EXTENDS Integers, Sequences, FiniteSets, TLC

VARIABLES store, pc, call, before, procs

vars == <<store, pc, call, before, procs>>

(***************************************************************************)
(* Bounds of the model.                                                    *)
(***************************************************************************)
MaxVersion == 2
MaxRequests == 2
NumProcs == 2

(***************************************************************************)
(* Values.                                                                 *)
(***************************************************************************)
Nil == [nil |-> TRUE]

\* Identities (public keys) of the peers, and the missing public key.
Identities == {"P1", "P2"}
NoKey == "nil"

\* Strings that uuid.Parse accepts.
UUIDs == {"I1", "I2", "T1"}

\* The installations that exist in the modelled world: P1 owns two, P2 one.
Devices == {<<"P1", "I1">>, <<"P1", "I2">>, <<"P2", "I1">>}
MalformedIds == {"", "bad"}
InstallationIds == {d[2] : d \in Devices} \cup MalformedIds

AccessTokens == {"", "T1"}
DeviceTokens == {"", "tok-1"}
UNKNOWN_TOKEN_TYPE == "UNKNOWN_TOKEN_TYPE"
APN_TOKEN == "APN_TOKEN"
TokenTypes == {UNKNOWN_TOKEN_TYPE, APN_TOKEN}
AllowedUserLists == {<<>>, <<"A">>}
Versions == 0 .. MaxVersion

\* protobuf.PushNotificationRegistration
Registrations ==
    [version : Versions, installationId : InstallationIds,
     accessToken : AccessTokens, token : DeviceTokens, tokenType : TokenTypes,
     allowedUserList : AllowedUserLists, unregister : BOOLEAN]

\* Errors of ValidateRegistration.
NoError == "nil"
ErrEmptyPushNotificationRegistrationPayload == "empty payload"
ErrEmptyPushNotificationRegistrationPublicKey == "empty public key"
ErrDecrypt == "decryption failed"
ErrCouldNotUnmarshalPushNotificationRegistration == "could not unmarshal"
ErrInvalidPushNotificationRegistrationVersion == "invalid version"
ErrMalformedPushNotificationRegistrationInstallationID == "malformed installation id"
ErrMalformedPushNotificationRegistrationAccessToken == "malformed access token"
ErrMalformedPushNotificationRegistrationDeviceToken == "malformed device token"
ErrUnknownPushNotificationRegistrationTokenType == "unknown token type"
ErrPersistence == "persistence error"
ErrSend == "send failed"
ErrGorush == "gorush request failed"

(***************************************************************************)
(* Collaborators: hashing, encryption, wire encoding, persistence.         *)
(***************************************************************************)
\* common.HashPublicKey: a one-way, collision-free hash of the identity key.
HashPublicKey(publicKey) == "H" \o publicKey
Hashes == {HashPublicKey(p) : p \in Identities}

\* common.Shake256
Shake256(payload) == <<"shake256", payload>>

\* The ECDH secret shared by the server's identity key and the peer's key.
generateSharedKey(publicKey) == {"server", publicKey}

\* The wire form of a registration, and bytes that are no protobuf message.
Marshal(message) == [proto |-> message]
Junk == [junk |-> TRUE]
Unmarshal(bytes) ==
    IF bytes = Junk THEN [message |-> Nil, err |-> "proto: cannot parse"]
    ELSE [message |-> bytes.proto, err |-> NoError]

\* common.Encrypt / common.Decrypt: authenticated encryption under a key.
Encrypt(plain, key) == [sealedWith |-> key, content |-> plain]
Decrypt(payload, key) ==
    IF payload.sealedWith = key THEN [plain |-> payload.content, err |-> NoError]
    ELSE [plain |-> Nil, err |-> ErrDecrypt]

\* The payload a peer sends for a registration.
EncryptedPayload(publicKey, registration) ==
    Encrypt(Marshal(registration), generateSharedKey(publicKey))

\* The persistence is a table keyed by (hashed identity, installation id): a
\* function from the keys that have a row to the registration stored there.
Keys == Hashes \X InstallationIds
EmptyStore == [k \in {} |-> Nil]

\* Persistence.GetPushNotificationRegistrationByPublicKeyAndInstallationID
GetPushNotificationRegistrationByPublicKeyAndInstallationID(st, hash, installationId, fails) ==
    IF fails THEN [registration |-> Nil, err |-> ErrPersistence]
    ELSE IF <<hash, installationId>> \in DOMAIN st
         THEN [registration |-> st[<<hash, installationId>>], err |-> NoError]
         ELSE [registration |-> Nil, err |-> NoError]

\* Persistence.SavePushNotificationRegistration: an unconditional upsert.
SavePushNotificationRegistration(st, hash, registration, fails) ==
    IF fails THEN [store |-> st, err |-> ErrPersistence]
    ELSE [store |-> (<<hash, registration.installationId>> :> registration) @@ st,
          err |-> NoError]

\* The order in which the persistence returns the rows of a multi-key lookup.
RECURSIVE SeqOf(_)
SeqOf(S) ==
    IF S = {} THEN <<>>
    ELSE LET x == CHOOSE y \in S : TRUE IN <<x>> \o SeqOf(S \ {x})

KeyList == SeqOf(Keys)

Range(seq) == {seq[i] : i \in DOMAIN seq}

\* Persistence.GetPushNotificationRegistrationByPublicKeys: every stored
\* registration of the given hashed identities, one per installation.
GetPushNotificationRegistrationByPublicKeys(st, publicKeys, fails) ==
    IF fails THEN [registrations |-> <<>>, err |-> ErrPersistence]
    ELSE LET found(k) == k \in DOMAIN st /\ k[1] \in Range(publicKeys)
             row(k) == [id |-> k[1], registration |-> st[k]]
             hits == SelectSeq(KeyList, found)
         IN  [registrations |-> [i \in 1 .. Len(hits) |-> row(hits[i])],
              err |-> NoError]

(***************************************************************************)
(* Registration validator.                                                 *)
(***************************************************************************)
validateUUID(u) ==
    IF Len(u) = 0 THEN "empty uuid"
    ELSE IF u \in UUIDs THEN NoError ELSE "invalid UUID"

decryptRegistration(publicKey, payload) ==
    Decrypt(payload, generateSharedKey(publicKey))

\* Mutant: a registration with the stored version is accepted again.
ValidateAgainstPrevious_AcceptsEqual(registration, previousRegistration) ==
    IF previousRegistration # Nil /\ registration.version < previousRegistration.version
    THEN ErrInvalidPushNotificationRegistrationVersion
    ELSE IF registration.unregister THEN NoError
    ELSE IF validateUUID(registration.accessToken) # NoError
    THEN ErrMalformedPushNotificationRegistrationAccessToken
    ELSE IF Len(registration.token) = 0
    THEN ErrMalformedPushNotificationRegistrationDeviceToken
    ELSE IF registration.tokenType = UNKNOWN_TOKEN_TYPE
    THEN ErrUnknownPushNotificationRegistrationTokenType
    ELSE NoError

\* Mutant: the unregister flag is looked at before the stored version.
ValidateAgainstPrevious_UnregisterFirst(registration, previousRegistration) ==
    IF registration.unregister THEN NoError
    ELSE IF previousRegistration # Nil
            /\ registration.version <= previousRegistration.version
    THEN ErrInvalidPushNotificationRegistrationVersion
    ELSE IF validateUUID(registration.accessToken) # NoError
    THEN ErrMalformedPushNotificationRegistrationAccessToken
    ELSE IF Len(registration.token) = 0
    THEN ErrMalformedPushNotificationRegistrationDeviceToken
    ELSE IF registration.tokenType = UNKNOWN_TOKEN_TYPE
    THEN ErrUnknownPushNotificationRegistrationTokenType
    ELSE NoError

\* Mutant: an unregistration has its tokens validated like a registration.
ValidateAgainstPrevious_NoUnregisterReturn(registration, previousRegistration) ==
    IF previousRegistration # Nil /\ registration.version <= previousRegistration.version
    THEN ErrInvalidPushNotificationRegistrationVersion
    ELSE IF validateUUID(registration.accessToken) # NoError
    THEN ErrMalformedPushNotificationRegistrationAccessToken
    ELSE IF Len(registration.token) = 0
    THEN ErrMalformedPushNotificationRegistrationDeviceToken
    ELSE IF registration.tokenType = UNKNOWN_TOKEN_TYPE
    THEN ErrUnknownPushNotificationRegistrationTokenType
    ELSE NoError

\* The checks of ValidateRegistration that follow the previous-registration lookup.
ValidateAgainstPrevious(registration, previousRegistration) ==
    IF previousRegistration # Nil /\ registration.version <= previousRegistration.version
    THEN ErrInvalidPushNotificationRegistrationVersion
    ELSE IF registration.unregister THEN NoError
    ELSE IF validateUUID(registration.accessToken) # NoError
    THEN ErrMalformedPushNotificationRegistrationAccessToken
    ELSE IF Len(registration.token) = 0
    THEN ErrMalformedPushNotificationRegistrationDeviceToken
    ELSE IF registration.tokenType = UNKNOWN_TOKEN_TYPE
    THEN ErrUnknownPushNotificationRegistrationTokenType
    ELSE NoError

\* The result of ValidateRegistration: the registration (Nil on error), the
\* error, the parsed message when parsing succeeded, and the persistence
\* lookups made.
Validation(registration, err, parsed, lookups) ==
    [registration |-> registration, err |-> err, parsed |-> parsed, lookups |-> lookups]

\* Mutant: the installation id is not validated.
ValidateParsed_NoInstallationIdCheck(st, publicKey, registration, getFails) ==
    IF registration.version < 1
    THEN Validation(Nil, ErrInvalidPushNotificationRegistrationVersion, registration, <<>>)
    ELSE LET key == <<HashPublicKey(publicKey), registration.installationId>>
             got == GetPushNotificationRegistrationByPublicKeyAndInstallationID(
                        st, key[1], key[2], getFails)
         IN  IF got.err # NoError
             THEN Validation(Nil, got.err, registration, <<key>>)
             ELSE LET err == ValidateAgainstPrevious(registration, got.registration)
                  IN  Validation(IF err = NoError THEN registration ELSE Nil,
                                 err, registration, <<key>>)

\* Mutant: the previous registration is looked up by installation id alone,
\* under any identity.
ValidateParsed_AnyIdentity(st, publicKey, registration, getFails) ==
    IF registration.version < 1
    THEN Validation(Nil, ErrInvalidPushNotificationRegistrationVersion, registration, <<>>)
    ELSE IF validateUUID(registration.installationId) # NoError
    THEN Validation(Nil, ErrMalformedPushNotificationRegistrationInstallationID, registration, <<>>)
    ELSE LET key == <<HashPublicKey(publicKey), registration.installationId>>
             same == {k \in DOMAIN st : k[2] = registration.installationId}
             newest == CHOOSE k \in same : \A j \in same : st[k].version >= st[j].version
             got == IF getFails THEN [registration |-> Nil, err |-> ErrPersistence]
                    ELSE IF same = {} THEN [registration |-> Nil, err |-> NoError]
                    ELSE [registration |-> st[newest], err |-> NoError]
         IN  IF got.err # NoError
             THEN Validation(Nil, got.err, registration, <<key>>)
             ELSE LET err == ValidateAgainstPrevious(registration, got.registration)
                  IN  Validation(IF err = NoError THEN registration ELSE Nil,
                                 err, registration, <<key>>)

ValidateParsed(st, publicKey, registration, getFails) ==
    IF registration.version < 1
    THEN Validation(Nil, ErrInvalidPushNotificationRegistrationVersion, registration, <<>>)
    ELSE IF validateUUID(registration.installationId) # NoError
    THEN Validation(Nil, ErrMalformedPushNotificationRegistrationInstallationID, registration, <<>>)
    ELSE LET key == <<HashPublicKey(publicKey), registration.installationId>>
             got == GetPushNotificationRegistrationByPublicKeyAndInstallationID(
                        st, key[1], key[2], getFails)
         IN  IF got.err # NoError
             THEN Validation(Nil, got.err, registration, <<key>>)
             ELSE LET err == ValidateAgainstPrevious(registration, got.registration)
                  IN  Validation(IF err = NoError THEN registration ELSE Nil,
                                 err, registration, <<key>>)

ValidateRegistration(st, publicKey, payload, getFails) ==
    IF payload = Nil
    THEN Validation(Nil, ErrEmptyPushNotificationRegistrationPayload, Nil, <<>>)
    ELSE IF publicKey = NoKey
    THEN Validation(Nil, ErrEmptyPushNotificationRegistrationPublicKey, Nil, <<>>)
    ELSE LET decrypted == decryptRegistration(publicKey, payload)
         IN  IF decrypted.err # NoError
             THEN Validation(Nil, decrypted.err, Nil, <<>>)
             ELSE LET unmarshalled == Unmarshal(decrypted.plain)
                  IN  IF unmarshalled.err # NoError
                      THEN Validation(Nil, ErrCouldNotUnmarshalPushNotificationRegistration,
                                      Nil, <<>>)
                      ELSE ValidateParsed(st, publicKey, unmarshalled.message, getFails)

(***************************************************************************)
(* Registration handler.                                                   *)
(***************************************************************************)
\* protobuf.PushNotificationRegistrationResponse
RegistrationResponse(payload, success, error) ==
    [requestId |-> Shake256(payload), success |-> success, error |-> error]

\* The registration an unregistration stores: version and installation id only.
emptyRegistration(registration) ==
    [version |-> registration.version, installationId |-> registration.installationId,
     accessToken |-> "", token |-> "", tokenType |-> UNKNOWN_TOKEN_TYPE,
     allowedUserList |-> <<>>, unregister |-> FALSE]

\* Mutant: an unregistration saves the incoming registration as it is.
RegistrationToSave_KeepsFields(registration) == registration

\* What the handler hands to SavePushNotificationRegistration.
RegistrationToSave(registration) ==
    IF registration.unregister THEN emptyRegistration(registration) ELSE registration

\* Mutant: an unregistration removes the record of its key.
HandleValidated_UnregisterDeletes(st, publicKey, payload, validation, saveFails) ==
    IF validation.err # NoError
    THEN [response |-> RegistrationResponse(payload, FALSE,
              IF validation.err = ErrInvalidPushNotificationRegistrationVersion
              THEN "VERSION_MISMATCH" ELSE "MALFORMED_MESSAGE"),
          store |-> st, validation |-> validation, saves |-> <<>>]
    ELSE LET toSave == RegistrationToSave(validation.registration)
             saved == SavePushNotificationRegistration(
                          st, HashPublicKey(publicKey), toSave, saveFails)
             key == <<HashPublicKey(publicKey), toSave.installationId>>
         IN  [response |-> IF saved.err # NoError
                           THEN RegistrationResponse(payload, FALSE, "INTERNAL_ERROR")
                           ELSE RegistrationResponse(payload, TRUE, "UNKNOWN_ERROR_TYPE"),
              store |-> IF saved.err = NoError /\ validation.registration.unregister
                        THEN [k \in DOMAIN st \ {key} |-> st[k]]
                        ELSE saved.store,
              validation |-> validation,
              saves |-> <<toSave>>]

\* Mutant: the invalid-version error is answered like every other one.
HandleValidated_NoVersionMismatch(st, publicKey, payload, validation, saveFails) ==
    IF validation.err # NoError
    THEN [response |-> RegistrationResponse(payload, FALSE, "MALFORMED_MESSAGE"),
          store |-> st, validation |-> validation, saves |-> <<>>]
    ELSE LET toSave == RegistrationToSave(validation.registration)
             saved == SavePushNotificationRegistration(
                          st, HashPublicKey(publicKey), toSave, saveFails)
         IN  [response |-> IF saved.err # NoError
                           THEN RegistrationResponse(payload, FALSE, "INTERNAL_ERROR")
                           ELSE RegistrationResponse(payload, TRUE, "UNKNOWN_ERROR_TYPE"),
              store |-> saved.store, validation |-> validation,
              saves |-> <<toSave>>]

\* Mutant: a parsed registration is saved before the validation error is
\* looked at.
HandleValidated_SavesUnvalidated(st, publicKey, payload, validation, saveFails) ==
    IF validation.err # NoError
    THEN [response |-> RegistrationResponse(payload, FALSE,
              IF validation.err = ErrInvalidPushNotificationRegistrationVersion
              THEN "VERSION_MISMATCH" ELSE "MALFORMED_MESSAGE"),
          store |-> IF validation.parsed = Nil THEN st
                    ELSE SavePushNotificationRegistration(
                             st, HashPublicKey(publicKey), validation.parsed, FALSE).store,
          validation |-> validation,
          saves |-> IF validation.parsed = Nil THEN <<>> ELSE <<validation.parsed>>]
    ELSE LET toSave == RegistrationToSave(validation.registration)
             saved == SavePushNotificationRegistration(
                          st, HashPublicKey(publicKey), toSave, saveFails)
         IN  [response |-> IF saved.err # NoError
                           THEN RegistrationResponse(payload, FALSE, "INTERNAL_ERROR")
                           ELSE RegistrationResponse(payload, TRUE, "UNKNOWN_ERROR_TYPE"),
              store |-> saved.store, validation |-> validation,
              saves |-> <<toSave>>]

\* HandlePushNotificationRegistration from line 215 on, given the result of
\* ValidateRegistration: the response, the store it leaves, the validation and
\* the saves it issued.
HandleValidated(st, publicKey, payload, validation, saveFails) ==
    IF validation.err # NoError
    THEN [response |-> RegistrationResponse(payload, FALSE,
              IF validation.err = ErrInvalidPushNotificationRegistrationVersion
              THEN "VERSION_MISMATCH" ELSE "MALFORMED_MESSAGE"),
          store |-> st, validation |-> validation, saves |-> <<>>]
    ELSE LET toSave == RegistrationToSave(validation.registration)
             saved == SavePushNotificationRegistration(
                          st, HashPublicKey(publicKey), toSave, saveFails)
         IN  [response |-> IF saved.err # NoError
                           THEN RegistrationResponse(payload, FALSE, "INTERNAL_ERROR")
                           ELSE RegistrationResponse(payload, TRUE, "UNKNOWN_ERROR_TYPE"),
              store |-> saved.store, validation |-> validation,
              saves |-> <<toSave>>]

HandlePushNotificationRegistration(st, publicKey, payload, getFails, saveFails) ==
    HandleValidated(st, publicKey, payload,
                    ValidateRegistration(st, publicKey, payload, getFails), saveFails)

(***************************************************************************)
(* Query handler.                                                          *)
(***************************************************************************)
\* protobuf.PushNotificationQueryInfo built for one stored registration.
QueryInfo(id, registration) ==
    IF Len(registration.allowedUserList) > 0
    THEN [publicKey |-> id, installationId |-> registration.installationId,
          accessToken |-> "", allowedUserList |-> registration.allowedUserList]
    ELSE [publicKey |-> id, installationId |-> registration.installationId,
          accessToken |-> registration.accessToken, allowedUserList |-> <<>>]

\* Mutant: success is set only when a registration was found.
HandlePushNotificationQuery_SuccessNeedsInfo(st, query, getFails) ==
    IF query = Nil \/ Len(query.publicKeys) = 0
    THEN [response |-> [info |-> <<>>, success |-> FALSE], lookups |-> 0]
    ELSE LET got == GetPushNotificationRegistrationByPublicKeys(
                        st, query.publicKeys, getFails)
         IN  IF got.err # NoError
             THEN [response |-> [info |-> <<>>, success |-> FALSE], lookups |-> 1]
             ELSE [response |->
                      [info |-> [i \in 1 .. Len(got.registrations) |->
                                    QueryInfo(got.registrations[i].id,
                                              got.registrations[i].registration)],
                       success |-> Len(got.registrations) > 0],
                   lookups |-> 1]

\* Mutant: a failed lookup gives no response at all.
HandlePushNotificationQuery_NilOnLookupError(st, query, getFails) ==
    IF query = Nil \/ Len(query.publicKeys) = 0
    THEN [response |-> [info |-> <<>>, success |-> FALSE], lookups |-> 0]
    ELSE LET got == GetPushNotificationRegistrationByPublicKeys(
                        st, query.publicKeys, getFails)
         IN  IF got.err # NoError
             THEN [response |-> Nil, lookups |-> 1]
             ELSE [response |->
                      [info |-> [i \in 1 .. Len(got.registrations) |->
                                    QueryInfo(got.registrations[i].id,
                                              got.registrations[i].registration)],
                       success |-> TRUE],
                   lookups |-> 1]

\* The result of HandlePushNotificationQuery: the response and the number of
\* persistence lookups made.
HandlePushNotificationQuery(st, query, getFails) ==
    IF query = Nil \/ Len(query.publicKeys) = 0
    THEN [response |-> [info |-> <<>>, success |-> FALSE], lookups |-> 0]
    ELSE LET got == GetPushNotificationRegistrationByPublicKeys(
                        st, query.publicKeys, getFails)
         IN  IF got.err # NoError
             THEN [response |-> [info |-> <<>>, success |-> FALSE], lookups |-> 1]
             ELSE [response |->
                      [info |-> [i \in 1 .. Len(got.registrations) |->
                                    QueryInfo(got.registrations[i].id,
                                              got.registrations[i].registration)],
                       success |-> TRUE],
                   lookups |-> 1]

(***************************************************************************)
(* Request handler.                                                        *)
(***************************************************************************)
\* Mutant: the claimed access token is not compared with the stored one.
ReportError_NoTokenCheck(got, pn) ==
    IF got.err # NoError THEN "UNKNOWN_ERROR_TYPE"
    ELSE IF got.registration = Nil THEN "NOT_REGISTERED"
    ELSE "NONE"

\* The report of one entry, given the outcome of its lookup.
ReportError(got, pn) ==
    IF got.err # NoError THEN "UNKNOWN_ERROR_TYPE"
    ELSE IF got.registration = Nil THEN "NOT_REGISTERED"
    ELSE IF got.registration.accessToken # pn.accessToken THEN "WRONG_TOKEN"
    ELSE "NONE"

PushNotificationReport(got, pn) ==
    [publicKey |-> pn.publicKey, installationId |-> pn.installationId,
     success |-> ReportError(got, pn) = "NONE",
     error |-> IF ReportError(got, pn) = "NONE" THEN "UNKNOWN_ERROR_TYPE"
               ELSE ReportError(got, pn)]

\* Mutant: an entry whose lookup fails is skipped without a report.
RECURSIVE RequestLoop_SkipsFailedLookup(_, _, _, _, _)
RequestLoop_SkipsFailedLookup(st, requests, fails, i, acc) ==
    IF i > Len(requests) THEN acc
    ELSE LET pn == requests[i]
             got == GetPushNotificationRegistrationByPublicKeyAndInstallationID(
                        st, pn.publicKey, pn.installationId, i \in fails)
             report == [publicKey |-> pn.publicKey, installationId |-> pn.installationId,
                        success |-> got.err = NoError /\ got.registration # Nil
                                    /\ got.registration.accessToken = pn.accessToken,
                        error |-> IF got.registration = Nil THEN "NOT_REGISTERED"
                                  ELSE IF got.registration.accessToken # pn.accessToken
                                  THEN "WRONG_TOKEN" ELSE "UNKNOWN_ERROR_TYPE"]
         IN  RequestLoop_SkipsFailedLookup(st, requests, fails, i + 1,
                 [reports |-> IF got.err # NoError THEN acc.reports
                              ELSE Append(acc.reports, report),
                  requestAndRegistrations |->
                      IF report.success
                      THEN Append(acc.requestAndRegistrations,
                                  [request |-> pn, registration |-> got.registration])
                      ELSE acc.requestAndRegistrations,
                  lookups |-> Append(acc.lookups,
                                     <<pn.publicKey, pn.installationId>>)])

\* The loop over request.Requests from entry i on: acc holds the reports, the
\* successful requests with their registrations, and the lookups so far.
RECURSIVE RequestLoop(_, _, _, _, _)
RequestLoop(st, requests, fails, i, acc) ==
    IF i > Len(requests) THEN acc
    ELSE LET pn == requests[i]
             got == GetPushNotificationRegistrationByPublicKeyAndInstallationID(
                        st, pn.publicKey, pn.installationId, i \in fails)
             report == PushNotificationReport(got, pn)
         IN  RequestLoop(st, requests, fails, i + 1,
                 [reports |-> Append(acc.reports, report),
                  requestAndRegistrations |->
                      IF report.success
                      THEN Append(acc.requestAndRegistrations,
                                  [request |-> pn, registration |-> got.registration])
                      ELSE acc.requestAndRegistrations,
                  lookups |-> Append(acc.lookups,
                                     <<pn.publicKey, pn.installationId>>)])

\* Mutant: only a nil request is left unanswered; an empty messageId is echoed.
HandlePushNotificationRequest_NoMessageIdCheck(st, request, fails) ==
    IF request = Nil
    THEN [response |-> Nil, lookups |-> <<>>, dispatched |-> Nil]
    ELSE LET done == RequestLoop(st, request.requests, fails, 1,
                         [reports |-> <<>>, requestAndRegistrations |-> <<>>,
                          lookups |-> <<>>])
         IN  [response |-> [messageId |-> request.messageId, reports |-> done.reports],
              lookups |-> done.lookups,
              dispatched |-> IF Len(done.requestAndRegistrations) = 0 THEN Nil
                             ELSE [batch |-> done.requestAndRegistrations]]

\* Mutant: the batch is handed to the gateway even when it is empty.
HandlePushNotificationRequest_AlwaysDispatches(st, request, fails) ==
    IF request = Nil \/ Len(request.messageId) = 0
    THEN [response |-> Nil, lookups |-> <<>>, dispatched |-> Nil]
    ELSE LET done == RequestLoop(st, request.requests, fails, 1,
                         [reports |-> <<>>, requestAndRegistrations |-> <<>>,
                          lookups |-> <<>>])
         IN  [response |-> [messageId |-> request.messageId, reports |-> done.reports],
              lookups |-> done.lookups,
              dispatched |-> [batch |-> done.requestAndRegistrations]]

\* The result of HandlePushNotificationRequest: the response (Nil when none is
\* sent), the lookups made and the batch handed to the gateway (Nil when no
\* dispatch is attempted).
HandlePushNotificationRequest(st, request, fails) ==
    IF request = Nil \/ Len(request.messageId) = 0
    THEN [response |-> Nil, lookups |-> <<>>, dispatched |-> Nil]
    ELSE LET done == RequestLoop(st, request.requests, fails, 1,
                         [reports |-> <<>>, requestAndRegistrations |-> <<>>,
                          lookups |-> <<>>])
         IN  [response |-> [messageId |-> request.messageId, reports |-> done.reports],
              lookups |-> done.lookups,
              dispatched |-> IF Len(done.requestAndRegistrations) = 0 THEN Nil
                             ELSE [batch |-> done.requestAndRegistrations]]

\* sendGoRushNotification: the HTTP call to the gateway, which fails or not.
sendGoRushNotification(goRushRequest, gatewayFails) ==
    IF gatewayFails THEN ErrGorush ELSE NoError

\* Mutant: a failed dispatch turns the reports of the batch into failures.
DispatchAndReturn_SurfacesError(handled, gatewayFails) ==
    IF handled.dispatched = Nil THEN handled.response
    ELSE LET err == sendGoRushNotification(handled.dispatched.batch, gatewayFails)
         IN  IF err = NoError THEN handled.response
             ELSE [handled.response EXCEPT !.reports =
                      [i \in DOMAIN handled.response.reports |->
                          [handled.response.reports[i] EXCEPT !.success = FALSE]]]

\* The end of HandlePushNotificationRequest: a non-empty batch is sent to the
\* gateway, the error of the send is dropped and the response is returned.
DispatchAndReturn(handled, gatewayFails) ==
    IF handled.dispatched = Nil THEN handled.response
    ELSE LET err == sendGoRushNotification(handled.dispatched.batch, gatewayFails)
         IN  IF err # NoError THEN handled.response ELSE handled.response

(***************************************************************************)
(* Transport wrappers.                                                     *)
(***************************************************************************)
\* proto.Marshal of a response and messageProcessor.SendPrivate to the peer:
\* the message sent (Nil when none) and the error returned to the caller.
SendResponse(publicKey, response, messageType, sendFails) ==
    IF response = Nil THEN [sent |-> Nil, ret |-> NoError]
    ELSE [sent |-> [to |-> publicKey, payload |-> Marshal(response),
                    messageType |-> messageType],
          ret |-> IF sendFails THEN ErrSend ELSE NoError]

(***************************************************************************)
(* Inputs of the registration handler.                                     *)
(***************************************************************************)
\* A well-formed registration, used for the payloads that fail before parsing.
SampleRegistration ==
    [version |-> 1, installationId |-> "I1", accessToken |-> "T1", token |-> "tok-1",
     tokenType |-> APN_TOKEN, allowedUserList |-> <<>>, unregister |-> FALSE]

\* Registrations a peer sends: for its own installations or with a malformed id.
RegistrationsOf(publicKey) ==
    {r \in Registrations :
        r.installationId \in MalformedIds \/ <<publicKey, r.installationId>> \in Devices}

\* The registrations among rs that pass every check that does not involve the
\* store.
WellFormed(rs) ==
    {r \in rs :
        /\ r.version >= 1 /\ r.installationId \notin MalformedIds
        /\ r.accessToken = "T1" /\ r.token = "tok-1" /\ r.tokenType = APN_TOKEN}

\* Well-formed registrations and unregistrations of a peer's installations,
\* without an allowed-user list.
PlainCalls(publicKey) ==
    {<<publicKey, EncryptedPayload(publicKey, r)>> :
        r \in {q \in WellFormed(RegistrationsOf(publicKey)) : q.allowedUserList = <<>>}}

\* (publicKey, payload) pairs handed to the registration handler: P1 sends any
\* registration, P2 plain well-formed ones; then the payloads that fail before
\* the registration is parsed.
RegistrationCalls ==
    {<<"P1", EncryptedPayload("P1", r)>> : r \in RegistrationsOf("P1")}
    \cup PlainCalls("P2")
    \cup {<<p, Nil>> : p \in Identities \cup {NoKey}}
    \cup {<<NoKey, EncryptedPayload("P1", SampleRegistration)>>}
    \cup {<<"P2", EncryptedPayload("P1", SampleRegistration)>>}
    \cup {<<p, Encrypt(Junk, generateSharedKey(p))>> : p \in Identities}

(***************************************************************************)
(* The sequential server: one message is handled at a time.                *)
(***************************************************************************)
Init ==
    /\ store = EmptyStore
    /\ pc = "idle"
    /\ call = Nil
    /\ before = EmptyStore
    /\ procs = [p \in 1 .. NumProcs |-> Nil]

\* HandlePushNotificationRegistration2 for the calls of the given set. The
\* outcome of a persistence call is drawn when the call is made: a lookup that
\* validation never reaches, or a save that is never issued, cannot fail.
RegistrationMessage(calls) ==
    /\ pc = "idle"
    /\ \E c \in calls :
       \E getFails \in IF ValidateRegistration(store, c[1], c[2], FALSE).lookups = <<>>
                       THEN {FALSE} ELSE BOOLEAN :
       \E saveFails \in IF ValidateRegistration(store, c[1], c[2], getFails).err # NoError
                        THEN {FALSE} ELSE BOOLEAN :
       \E sendFails \in BOOLEAN :
          LET handled == HandlePushNotificationRegistration(
                             store, c[1], c[2], getFails, saveFails)
              out == SendResponse(c[1], handled.response,
                                  "PUSH_NOTIFICATION_REGISTRATION_RESPONSE", sendFails)
          IN  /\ store' = handled.store
              /\ call' = [op |-> "registration", publicKey |-> c[1], payload |-> c[2],
                          getFails |-> getFails, saveFails |-> saveFails,
                          validation |-> handled.validation, saves |-> handled.saves,
                          response |-> handled.response, sent |-> out.sent,
                          ret |-> out.ret]
    /\ before' = store
    /\ pc' = "returned"
    /\ UNCHANGED procs

HandlePushNotificationRegistration2 == RegistrationMessage(RegistrationCalls)

\* Mutant: the validator stores the registration it has validated.
CallValidateRegistration_Saves ==
    /\ pc = "idle"
    /\ \E c \in RegistrationCalls :
       \E getFails \in IF ValidateRegistration(store, c[1], c[2], FALSE).lookups = <<>>
                       THEN {FALSE} ELSE BOOLEAN :
          LET validation == ValidateRegistration(store, c[1], c[2], getFails)
          IN  /\ call' = [op |-> "validate", publicKey |-> c[1], payload |-> c[2],
                          getFails |-> getFails, validation |-> validation]
              /\ store' = IF validation.err # NoError THEN store
                          ELSE SavePushNotificationRegistration(
                                   store, HashPublicKey(c[1]),
                                   validation.registration, FALSE).store
    /\ before' = store
    /\ pc' = "returned"
    /\ UNCHANGED procs

\* A direct call of the exported validator: nothing is saved and nothing is
\* sent.
CallValidateRegistration ==
    /\ pc = "idle"
    /\ \E c \in RegistrationCalls :
       \E getFails \in IF ValidateRegistration(store, c[1], c[2], FALSE).lookups = <<>>
                       THEN {FALSE} ELSE BOOLEAN :
          call' = [op |-> "validate", publicKey |-> c[1], payload |-> c[2],
                   getFails |-> getFails,
                   validation |-> ValidateRegistration(store, c[1], c[2], getFails)]
    /\ before' = store
    /\ pc' = "returned"
    /\ UNCHANGED <<store, procs>>

(***************************************************************************)
(* Inputs of the query and request handlers.                               *)
(***************************************************************************)
\* The peers that query and request: third parties and owners alike.
Requesters == {"P2"}

\* protobuf.PushNotificationQuery
Queries ==
    {[publicKeys |-> ks] :
        ks \in {<<>>, <<"HP1">>, <<"HP2">>, <<"HP1", "HP2">>, <<"HP3">>}}

\* One entry of a request: a device's hashed identity and installation id with
\* a claimed access token.
RequestEntries ==
    {[publicKey |-> HashPublicKey(d[1]), installationId |-> d[2], accessToken |-> t] :
        d \in Devices, t \in AccessTokens}

MessageIds == {"", "m1"}

\* protobuf.PushNotificationRequest with at most n entries.
RequestsUpTo(n) ==
    {[messageId |-> m, requests |-> es] :
        m \in MessageIds, es \in UNION {[1 .. l -> RequestEntries] : l \in 0 .. n}}

\* The registrations and unregistrations of the owner P1.
OwnerCalls == PlainCalls("P1")

(***************************************************************************)
(* Query and request messages.                                             *)
(***************************************************************************)
\* HandlePushNotificationQuery, followed by the rest of
\* HandlePushNotificationQuery2 when the call comes through the wrapper.
QueryMessage(queries, wrapped) ==
    /\ pc = "idle"
    /\ \E publicKey \in Requesters, query \in queries :
       \E getFails \in IF HandlePushNotificationQuery(store, query, FALSE).lookups = 0
                       THEN {FALSE} ELSE BOOLEAN :
       \E sendFails \in IF wrapped THEN BOOLEAN ELSE {FALSE} :
          LET handled == HandlePushNotificationQuery(store, query, getFails)
              out == IF wrapped
                     THEN SendResponse(publicKey, handled.response,
                                       "PUSH_NOTIFICATION_QUERY_RESPONSE", sendFails)
                     ELSE [sent |-> Nil, ret |-> NoError]
          IN  call' = [op |-> "query", wrapped |-> wrapped, publicKey |-> publicKey,
                       query |-> query, getFails |-> getFails,
                       response |-> handled.response, lookups |-> handled.lookups,
                       sent |-> out.sent, ret |-> out.ret]
    /\ before' = store
    /\ pc' = "returned"
    /\ UNCHANGED <<store, procs>>

\* HandlePushNotificationRequest, followed by the rest of
\* HandlePushNotificationRequest2 when the call comes through the wrapper.
\* fails holds the entries whose lookup fails; gatewayFails is the outcome of
\* sendGoRushNotification.
RequestMessage(requests, wrapped) ==
    /\ pc = "idle"
    /\ \E publicKey \in Requesters, request \in requests :
       \E fails \in IF HandlePushNotificationRequest(store, request, {}).response = Nil
                    THEN {{}} ELSE SUBSET (1 .. Len(request.requests)) :
          LET handled == HandlePushNotificationRequest(store, request, fails)
          IN  \E gatewayFails \in IF handled.dispatched = Nil THEN {FALSE} ELSE BOOLEAN :
              \E sendFails \in IF wrapped /\ handled.response # Nil
                                THEN BOOLEAN ELSE {FALSE} :
                 LET response == DispatchAndReturn(handled, gatewayFails)
                     out == IF wrapped
                            THEN SendResponse(publicKey, response,
                                              "PUSH_NOTIFICATION_RESPONSE", sendFails)
                            ELSE [sent |-> Nil, ret |-> NoError]
                 IN  call' = [op |-> "request", wrapped |-> wrapped,
                              publicKey |-> publicKey, request |-> request,
                              fails |-> fails, response |-> response,
                              lookups |-> handled.lookups,
                              dispatched |-> handled.dispatched,
                              gatewayFails |-> gatewayFails,
                              sent |-> out.sent, ret |-> out.ret]
    /\ before' = store
    /\ pc' = "returned"
    /\ UNCHANGED <<store, procs>>

HandlePushNotificationQuery2 == QueryMessage(Queries, TRUE)

\* A direct call of the handler, which alone can pass a nil query.
CallHandlePushNotificationQuery == QueryMessage({Nil, [publicKeys |-> <<"HP1">>]}, FALSE)

HandlePushNotificationRequest2 == RequestMessage(RequestsUpTo(1), TRUE)

\* A direct call of the handler, which alone can pass a nil request.
CallHandlePushNotificationRequest ==
    RequestMessage({Nil} \cup RequestsUpTo(0), FALSE)

\* The wrapper has returned: its locals are gone and the next message is taken.
Return ==
    /\ pc = "returned"
    /\ pc' = "idle"
    /\ call' = Nil
    /\ before' = store
    /\ UNCHANGED <<store, procs>>

Next ==
    \/ HandlePushNotificationRegistration2
    \/ CallValidateRegistration
    \/ HandlePushNotificationQuery2
    \/ CallHandlePushNotificationQuery
    \/ HandlePushNotificationRequest2
    \/ CallHandlePushNotificationRequest
    \/ Return

Spec == Init /\ [][Next]_vars

(***************************************************************************)
(* The server with batched requests: the owner P1 registers and            *)
(* unregisters its installations, peers send requests of up to             *)
(* MaxRequests entries.                                                    *)
(***************************************************************************)
OwnerRegistration2 == RegistrationMessage(OwnerCalls)

BatchRequest2 == RequestMessage(RequestsUpTo(MaxRequests), TRUE)

NextRequest ==
    \/ OwnerRegistration2
    \/ HandlePushNotificationQuery2
    \/ BatchRequest2
    \/ CallHandlePushNotificationRequest
    \/ Return

SpecRequest == Init /\ [][NextRequest]_vars

(***************************************************************************)
(* Concurrent registrations: each process runs                             *)
(* HandlePushNotificationRegistration, whose lookup (inside                *)
(* ValidateRegistration) and save are separate persistence calls.          *)
(***************************************************************************)
Procs == 1 .. NumProcs

\* Lines 213-223: validate against the store as it is now; a registration
\* that does not validate is answered at once and nothing is kept.
ValidateStep(p) ==
    /\ procs[p] = Nil
    /\ \E c \in OwnerCalls :
          LET validation == ValidateRegistration(store, c[1], c[2], FALSE)
          IN  /\ validation.err = NoError
              /\ procs' = [procs EXCEPT ![p] =
                              [publicKey |-> c[1], registration |-> validation.registration]]
    /\ UNCHANGED <<store, pc, call, before>>

\* Lines 225-247: save the validated registration.
SaveStep(p) ==
    /\ procs[p] # Nil
    /\ store' = SavePushNotificationRegistration(
                    store, HashPublicKey(procs[p].publicKey),
                    RegistrationToSave(procs[p].registration), FALSE).store
    /\ procs' = [procs EXCEPT ![p] = Nil]
    /\ UNCHANGED <<pc, call, before>>

NextConcurrent == \E p \in Procs : ValidateStep(p) \/ SaveStep(p)

SpecConcurrent == Init /\ [][NextConcurrent]_vars

(***************************************************************************)
(* Properties.                                                             *)
(***************************************************************************)
\* A call of the given handler has just returned.
Returned(op) == pc = "returned" /\ call.op = op

\* The last registration call got as far as a parsed registration.
Parsed == Returned("registration") /\ call.validation.parsed # Nil

\* The key the parsed registration of the last call is stored under.
CallKey == <<HashPublicKey(call.publicKey), call.validation.parsed.installationId>>

\* A registration R1 with the key of the parsed registration R2 was stored
\* before the call, and R2's version is not greater than R1's.
Stale ==
    /\ Parsed
    /\ CallKey \in DOMAIN before
    /\ call.validation.parsed.version <= before[CallKey].version

\* The record an unregistration leaves: version and installation id only.
UnregisteredShape(r) ==
    /\ r.accessToken = "" /\ r.token = "" /\ r.tokenType = UNKNOWN_TOKEN_TYPE
    /\ r.allowedUserList = <<>> /\ r.unregister = FALSE

\* C1: under sequentially executed registration calls, every key that had a
\* record keeps one whose version is not smaller, and a save onto an existing
\* key carries a version strictly greater than the stored one.
C1_ReplacedOnlyByGreaterVersion ==
    /\ \A k \in DOMAIN before :
          /\ k \in DOMAIN store
          /\ store[k].version >= before[k].version
          /\ store[k] # before[k] => store[k].version > before[k].version
    /\ Returned("registration") =>
          \A i \in DOMAIN call.saves :
             CallKey \in DOMAIN before => call.saves[i].version > before[CallKey].version

C1_Witness ==
    /\ Returned("registration")
    /\ call.response.success
    /\ CallKey \in DOMAIN before
    /\ store[CallKey] # before[CallKey]

\* C2 as stated: a registration whose version is not greater than the stored
\* one of its key fails validation with the invalid-version error, whatever
\* its other fields.
C2_StaleFailsWithInvalidVersion ==
    Stale => call.validation.err = ErrInvalidPushNotificationRegistrationVersion

\* C2 amended: it fails with the invalid-version error when the lookup of the
\* previous registration succeeds, and with the lookup's error when it fails.
C2_StaleFailsUnlessLookupFails ==
    Stale =>
       /\ call.validation.registration = Nil
       /\ call.validation.err =
             IF call.getFails THEN ErrPersistence
             ELSE ErrInvalidPushNotificationRegistrationVersion

C2_Witness ==
    /\ Stale
    /\ ~call.getFails
    /\ call.validation.parsed.unregister
    /\ call.validation.parsed.accessToken = ""
    /\ call.validation.parsed.tokenType = UNKNOWN_TOKEN_TYPE
    /\ call.validation.err = ErrInvalidPushNotificationRegistrationVersion

\* An unregistration with version >= 1 and a valid installation id.
Unregistration ==
    /\ Parsed
    /\ call.validation.parsed.unregister
    /\ call.validation.parsed.version >= 1
    /\ call.validation.parsed.installationId \in UUIDs

\* C4 as stated: an unregistration with version >= 1 and a valid installation
\* id validates, whatever its access token, device token and token type.
C4_UnregisterAlwaysValidates ==
    Unregistration => call.validation.err = NoError

\* C4 amended: it validates when, in addition, the lookup of the previous
\* registration succeeds and finds none with a version >= the incoming one.
C4_UnregisterValidatesWhenNewer ==
    (Unregistration /\ ~call.getFails /\ ~Stale) =>
       /\ call.validation.err = NoError
       /\ call.validation.registration = call.validation.parsed

C4_Witness ==
    /\ Unregistration /\ ~call.getFails /\ ~Stale
    /\ call.validation.parsed.accessToken = ""
    /\ call.validation.parsed.token = ""
    /\ call.validation.parsed.tokenType = UNKNOWN_TOKEN_TYPE
    /\ call.validation.err = NoError

\* C5 as stated: a parsed registration with a malformed installation id fails
\* with the malformed-installation-id error for every version, before any
\* version or token check.
C5_MalformedIdAlwaysItsError ==
    (Parsed /\ call.validation.parsed.installationId \in MalformedIds) =>
       /\ call.validation.err = ErrMalformedPushNotificationRegistrationInstallationID
       /\ call.validation.lookups = <<>>

\* C5 amended: with version >= 1 it fails with the malformed-installation-id
\* error, without looking up the stored version and before the token checks;
\* with version < 1 the invalid-version error comes first.
C5_MalformedIdAfterVersionFloor ==
    (Parsed /\ call.validation.parsed.installationId \in MalformedIds) =>
       /\ call.validation.registration = Nil
       /\ call.validation.lookups = <<>>
       /\ call.saves = <<>>
       /\ store = before
       /\ call.validation.err =
             IF call.validation.parsed.version >= 1
             THEN ErrMalformedPushNotificationRegistrationInstallationID
             ELSE ErrInvalidPushNotificationRegistrationVersion

C5_Witness ==
    /\ Parsed
    /\ call.validation.parsed.installationId = "bad"
    /\ call.validation.parsed.version = MaxVersion
    /\ call.validation.parsed.accessToken = ""
    /\ DOMAIN before # {}
    /\ call.validation.err = ErrMalformedPushNotificationRegistrationInstallationID

\* C6: after a successfully handled unregistration the record of its key
\* holds the incoming version and installation id and nothing else.
C6_UnregisterKeepsOnlyVersionAndId ==
    (Returned("registration") /\ call.response.success
        /\ call.validation.parsed.unregister) =>
       /\ CallKey \in DOMAIN store
       /\ store[CallKey].version = call.validation.parsed.version
       /\ store[CallKey].installationId = call.validation.parsed.installationId
       /\ UnregisteredShape(store[CallKey])

C6_Witness ==
    /\ Returned("registration") /\ call.response.success
    /\ call.validation.parsed.unregister
    /\ call.validation.parsed.accessToken = "T1"
    /\ call.validation.parsed.allowedUserList # <<>>
    /\ CallKey \in DOMAIN before
    /\ before[CallKey].accessToken = "T1"
    /\ before[CallKey].allowedUserList # <<>>

\* The last call is a request that is answered.
Answered == Returned("request") /\ call.response # Nil

EntryKey(pn) == <<pn.publicKey, pn.installationId>>

\* Entry i of the last request is authorised: its lookup succeeds and finds a
\* registration whose access token is the claimed one.
Authorised(i) ==
    LET pn == call.request.requests[i]
    IN  /\ i \notin call.fails
        /\ EntryKey(pn) \in DOMAIN store
        /\ store[EntryKey(pn)].accessToken = pn.accessToken

\* The error a report must carry for entry i.
ExpectedError(i) ==
    LET pn == call.request.requests[i]
    IN  IF i \in call.fails THEN "UNKNOWN_ERROR_TYPE"
        ELSE IF EntryKey(pn) \notin DOMAIN store THEN "NOT_REGISTERED"
        ELSE IF store[EntryKey(pn)].accessToken # pn.accessToken THEN "WRONG_TOKEN"
        ELSE "UNKNOWN_ERROR_TYPE"

\* The authorised entries of the last request, in input order.
AuthorisedEntries ==
    LET n == Len(call.request.requests)
        picked == SelectSeq([i \in 1 .. n |-> i], Authorised)
    IN  [j \in 1 .. Len(picked) |->
            [request |-> call.request.requests[picked[j]],
             registration |-> store[EntryKey(call.request.requests[picked[j]])]]]

\* C7: an entry is reported successful exactly when it is authorised; the
\* other entries carry unknown, not_registered or wrong_token; the batch handed
\* to the gateway is exactly the successful entries in input order.
C7_SuccessIffTokenMatches ==
    Answered =>
       /\ \A i \in DOMAIN call.request.requests :
             /\ call.response.reports[i].success = Authorised(i)
             /\ call.response.reports[i].error = ExpectedError(i)
       /\ IF Len(AuthorisedEntries) = 0 THEN call.dispatched = Nil
          ELSE call.dispatched # Nil /\ call.dispatched.batch = AuthorisedEntries

C7_Witness ==
    /\ Answered
    /\ Len(call.request.requests) = 2
    /\ call.response.reports[1].error = "WRONG_TOKEN"
    /\ call.response.reports[2].success
    /\ call.dispatched # Nil
    /\ Len(call.dispatched.batch) = 1
    /\ call.dispatched.batch[1].request = call.request.requests[2]

\* C8: a request with a non-empty messageId is answered with that messageId
\* and one report per entry, in input order, each with its entry's identity
\* and installation id.
C8_OneReportPerEntryInOrder ==
    (Returned("request") /\ call.request # Nil /\ call.request.messageId # "") =>
       /\ call.response # Nil
       /\ call.response.messageId = call.request.messageId
       /\ Len(call.response.reports) = Len(call.request.requests)
       /\ \A i \in DOMAIN call.request.requests :
             /\ call.response.reports[i].publicKey = call.request.requests[i].publicKey
             /\ call.response.reports[i].installationId =
                   call.request.requests[i].installationId

C8_Witness ==
    /\ Answered
    /\ Len(call.response.reports) = 2
    /\ call.response.reports[1].installationId # call.response.reports[2].installationId
    /\ 1 \in call.fails
    /\ call.response.reports[2].success

\* C9: a nil request or one with an empty messageId gets no response; no
\* lookup and no dispatch is made, and the wrapper sends nothing and returns
\* no error.
C9_NoMessageIdNoResponse ==
    (Returned("request") /\ (call.request = Nil \/ call.request.messageId = "")) =>
       /\ call.response = Nil
       /\ call.lookups = <<>>
       /\ call.dispatched = Nil
       /\ call.sent = Nil
       /\ call.ret = NoError

C9_Witness ==
    /\ Returned("request")
    /\ call.wrapped
    /\ call.request.messageId = ""
    /\ Len(call.request.requests) > 0
    /\ EntryKey(call.request.requests[1]) \in DOMAIN store
    /\ store[EntryKey(call.request.requests[1])].accessToken =
          call.request.requests[1].accessToken
    /\ call.sent = Nil

\* C3: under interleaved registration handlers the version stored under a
\* key never decreases and a newer registration is never overwritten by an
\* older one.
C3_ConcurrentWritesRespectVersions ==
    [][\A k \in DOMAIN store :
          k \in DOMAIN store' /\ store'[k].version >= store[k].version]_vars

\* C10: the query entry built for any stored registration holds exactly one
\* of access token and allowed-user list: the list when the registration has
\* one, the access token otherwise.
C10_ExactlyOneOfTokenAndList ==
    \A k \in DOMAIN store :
       LET info == QueryInfo(k[1], store[k])
       IN  /\ (info.accessToken # "") # (Len(info.allowedUserList) > 0)
           /\ IF Len(store[k].allowedUserList) > 0
              THEN info.allowedUserList = store[k].allowedUserList
                   /\ info.accessToken = ""
              ELSE info.accessToken = store[k].accessToken
                   /\ info.allowedUserList = <<>>

\* The last call is a query for no identity: a nil query or an empty list.
EmptyQuery ==
    Returned("query") /\ (call.query = Nil \/ Len(call.query.publicKeys) = 0)

\* C11: a nil query or a query for zero identities is answered with an empty
\* info list and success = false without a persistence lookup; a query for one
\* or more identities whose lookup succeeds is answered with success = true,
\* also when no registration is found.
C11_EmptyQueryFalseElseTrue ==
    Returned("query") =>
       IF EmptyQuery
       THEN /\ call.response.info = <<>>
            /\ call.response.success = FALSE
            /\ call.lookups = 0
       ELSE ~call.getFails =>
               /\ call.lookups = 1
               /\ call.response.success = TRUE

C11_Witness ==
    /\ Returned("query") /\ ~EmptyQuery /\ ~call.getFails
    /\ DOMAIN store # {}
    /\ call.response.info = <<>>
    /\ call.response.success = TRUE

\* C12: the gateway dispatch is attempted exactly when at least one entry is
\* reported successful; a request with a messageId and no entries is answered
\* with an empty report list and no dispatch, and so is one whose entries all
\* fail.
C12_DispatchIffSomeSuccess ==
    Returned("request") =>
       IF call.response = Nil THEN call.dispatched = Nil
       ELSE /\ (call.dispatched # Nil) =
                  (\E i \in DOMAIN call.response.reports :
                      call.response.reports[i].success)
            /\ Len(call.request.requests) = 0 =>
                  call.response.reports = <<>> /\ call.dispatched = Nil

C12_Witness ==
    /\ Answered
    /\ Len(call.request.requests) = MaxRequests
    /\ call.response.reports[1].error = "WRONG_TOKEN"
    /\ \A i \in DOMAIN call.response.reports : ~call.response.reports[i].success
    /\ call.dispatched = Nil

\* C13: registrations are never deleted: in every step, whatever the
\* operation, each key that has a record keeps a record with its installation
\* id, and a handled unregistration leaves its key's record in the unregistered
\* shape.
C13_NeverDeleted ==
    [][/\ \A k \in DOMAIN store :
             k \in DOMAIN store' /\ store'[k].installationId = k[2]
       /\ (pc' = "returned" /\ call'.op = "registration" /\ call'.response.success
              /\ call'.validation.parsed.unregister) =>
             LET key == <<HashPublicKey(call'.publicKey),
                          call'.validation.parsed.installationId>>
             IN  key \in DOMAIN store' /\ UnregisteredShape(store'[key])]_vars

C13_Witness ==
    /\ Returned("registration") /\ call.response.success
    /\ call.validation.parsed.unregister
    /\ CallKey \in DOMAIN before
    /\ ~UnregisteredShape(before[CallKey])
    /\ CallKey \in DOMAIN store
    /\ UnregisteredShape(store[CallKey])
    /\ store[CallKey].installationId = CallKey[2]

\* The errors of ValidateRegistration other than the invalid-version one.
OtherValidationErrors ==
    {ErrEmptyPushNotificationRegistrationPayload,
     ErrEmptyPushNotificationRegistrationPublicKey, ErrDecrypt,
     ErrCouldNotUnmarshalPushNotificationRegistration,
     ErrMalformedPushNotificationRegistrationInstallationID,
     ErrMalformedPushNotificationRegistrationAccessToken,
     ErrMalformedPushNotificationRegistrationDeviceToken,
     ErrUnknownPushNotificationRegistrationTokenType, ErrPersistence}

\* C14: the registration response carries VERSION_MISMATCH exactly for the
\* invalid-version error (version < 1 or not greater than the stored one),
\* MALFORMED_MESSAGE for every other validation error, INTERNAL_ERROR for a
\* failing save, and success = true exactly when validation passed and the
\* save succeeded.
C14_ErrorCodeByCause ==
    Returned("registration") =>
       LET err == call.validation.err
       IN  /\ call.response.error =
                 IF err = ErrInvalidPushNotificationRegistrationVersion
                 THEN "VERSION_MISMATCH"
                 ELSE IF err \in OtherValidationErrors THEN "MALFORMED_MESSAGE"
                 ELSE IF call.saveFails THEN "INTERNAL_ERROR"
                 ELSE "UNKNOWN_ERROR_TYPE"
           /\ call.response.error = "VERSION_MISMATCH" =>
                 Parsed /\ (call.validation.parsed.version < 1 \/ Stale)
           /\ call.response.success = (err = NoError /\ ~call.saveFails)
           /\ call.response.success = (call.response.error = "UNKNOWN_ERROR_TYPE")

C14_Witness ==
    /\ Returned("registration")
    /\ Stale /\ ~call.getFails
    /\ call.validation.parsed.accessToken = ""
    /\ call.validation.parsed.installationId \in UUIDs
    /\ call.response.error = "VERSION_MISMATCH"
    /\ ~call.response.success

\* C15: a registration call answered with VERSION_MISMATCH or
\* MALFORMED_MESSAGE issues no save and leaves the whole store as it was; the
\* store changes only in a call whose registration validated.
C15_NoSaveWithoutValidation ==
    /\ (Returned("registration")
           /\ call.response.error \in {"VERSION_MISMATCH", "MALFORMED_MESSAGE"}) =>
          /\ ~call.response.success
          /\ call.validation.err # NoError
          /\ call.saves = <<>>
          /\ store = before
    /\ store # before =>
          /\ Returned("registration")
          /\ call.validation.err = NoError
          /\ call.validation.registration = call.validation.parsed

C15_Witness ==
    /\ Parsed
    /\ call.response.error = "MALFORMED_MESSAGE"
    /\ CallKey \in DOMAIN before
    /\ call.validation.parsed.version > before[CallKey].version
    /\ call.validation.parsed.token # before[CallKey].token
    /\ call.saves = <<>>
    /\ store = before

\* C16: the response of a request that reached the gateway is the one computed
\* from the request and the store before the dispatch, with the same messageId
\* and the same success flag and error code in every report, whether the
\* dispatch succeeds or fails; the wrapper sends that response.
C16_ResponseIndependentOfDispatch ==
    (Answered /\ call.dispatched # Nil) =>
       /\ call.response.messageId = call.request.messageId
       /\ \A i \in DOMAIN call.request.requests :
             /\ call.response.reports[i].success = Authorised(i)
             /\ call.response.reports[i].error = ExpectedError(i)
       /\ call.response =
             HandlePushNotificationRequest(before, call.request, call.fails).response
       /\ call.wrapped => call.sent # Nil /\ call.sent.payload = Marshal(call.response)

C16_Witness ==
    /\ Answered /\ call.dispatched # Nil
    /\ call.gatewayFails
    /\ call.wrapped
    /\ Len(call.response.reports) = MaxRequests
    /\ call.response.reports[1].success
    /\ ~call.response.reports[2].success

\* C17: a query whose persistence lookup fails is answered with an empty
\* response (no info entry, success false); the persistence error does not
\* reach the caller, and HandlePushNotificationQuery2 sends that response to
\* the peer.
C17_LookupFailureGivesEmptyResponse ==
    (Returned("query") /\ call.getFails) =>
       /\ ~EmptyQuery
       /\ call.response = [info |-> <<>>, success |-> FALSE]
       /\ call.ret \in {NoError, ErrSend}
       /\ IF call.wrapped
          THEN /\ call.sent # Nil
               /\ call.sent.to = call.publicKey
               /\ call.sent.payload = Marshal(call.response)
               /\ call.sent.messageType = "PUSH_NOTIFICATION_QUERY_RESPONSE"
          ELSE call.ret = NoError

C17_Witness ==
    /\ Returned("query") /\ call.getFails /\ call.wrapped
    /\ \E k \in DOMAIN store : k[1] \in Range(call.query.publicKeys)
    /\ call.response.info = <<>>
    /\ call.sent # Nil
    /\ call.ret = NoError

\* C18: while the record of a key is in the unregistered shape, no request
\* entry for that key is reported successful or put in the batch handed to the
\* gateway, whatever access token it claims, the empty one included.
C18_UnregisteredNeverNotified ==
    Answered =>
       \A i \in DOMAIN call.request.requests :
          LET pn == call.request.requests[i]
          IN  (EntryKey(pn) \in DOMAIN store
                  /\ UnregisteredShape(store[EntryKey(pn)])) =>
                 /\ ~call.response.reports[i].success
                 /\ call.dispatched # Nil =>
                       \A j \in DOMAIN call.dispatched.batch :
                          call.dispatched.batch[j].request # pn

\* The store a registration call leaves, given the save it issued.
StoreAfterSaves ==
    IF call.saves = <<>> \/ call.saveFails THEN before
    ELSE (<<HashPublicKey(call.publicKey), call.saves[1].installationId>>
             :> call.saves[1]) @@ before

\* C19: after ValidateRegistration, HandlePushNotificationQuery or
\* HandlePushNotificationRequest has run, with any input and outcome, every
\* stored registration is as before; the store changes only in
\* HandlePushNotificationRegistration, and there only by the save it issues
\* after its validation.
C19_OnlyRegistrationWrites ==
    /\ (Returned("validate") \/ Returned("query") \/ Returned("request")) =>
          store = before
    /\ Returned("registration") => store = StoreAfterSaves
    /\ store # before => Returned("registration") /\ Len(call.saves) = 1

C19_Witness ==
    /\ Returned("validate")
    /\ call.validation.err = NoError
    /\ call.validation.lookups # <<>>
    /\ call.validation.lookups[1] \in DOMAIN store
    /\ call.validation.registration.version > store[call.validation.lookups[1]].version
    /\ store = before

\* The part of a store under the given keys.
Restrict(st, keys) == [k \in DOMAIN st \cap keys |-> st[k]]

\* C20: a registration call of identity P for installation I changes at most
\* the record under (hash(P), I): the records of the other identities and of
\* P's other installations are as before; and its validation is the one made
\* against the record of (hash(P), I) alone, so that it is rejected for its
\* version exactly when that record's version is not smaller.
C20_OnlyOwnKeyTouched ==
    Returned("registration") =>
       IF ~Parsed THEN store = before
       ELSE /\ \A k \in (DOMAIN before \cup DOMAIN store) \ {CallKey} :
                  k \in DOMAIN before /\ k \in DOMAIN store /\ store[k] = before[k]
            /\ call.validation =
                  ValidateRegistration(Restrict(before, {CallKey}), call.publicKey,
                                       call.payload, call.getFails)
            /\ (call.validation.lookups # <<>> /\ ~call.getFails) =>
                  (call.validation.err = ErrInvalidPushNotificationRegistrationVersion)
                     = Stale

C20_Witness ==
    /\ Parsed /\ call.response.success
    /\ store[CallKey].version = 1
    /\ \E k \in DOMAIN before :
          k[1] # CallKey[1] /\ k[2] = CallKey[2] /\ before[k].version = MaxVersion
    /\ \E k \in DOMAIN before :
          k[1] = CallKey[1] /\ k[2] # CallKey[2] /\ before[k].version = MaxVersion

====
